---- MODULE Spec2Model ----
(***************************************************************************)
(* The GIPHY search page script: a click handler that builds a search URL, *)
(* fetches it, extracts the original image URLs from the JSON answer and   *)
(* rewrites the display region (#gif-container).                           *)
(*                                                                         *)
(* Two handlers exist in the repository:                                   *)
(*   config = "default"  src/js/script.js (src/unnamed/part_000 is the     *)
(*                       same code with shorter comments): an empty term   *)
(*                       falls back to the hardcoded query, errors end in  *)
(*                       an error notice;                                  *)
(*   config = "alert"    src/unnamed/part_001: an empty term raises an     *)
(*                       alert, errors are only logged.                    *)
(*                                                                         *)
(* Strings the code inspects character by character (the search term, the  *)
(* URL) are sequences of pieces; JSON values are tagged records.           *)
(***************************************************************************)
EXTENDS Integers, Sequences, FiniteSets, TLC

VARIABLES
    config,        \* which of the two handlers is installed on the button
    server,        \* the backing response of the API, unchanged during a run
    initial,       \* the static content of #gif-container when the page loads
    searchInput,   \* searchInput.value as read by the most recent click
    gifContainer,  \* children of #gif-container (its innerHTML), in order
    inv,           \* per handler invocation: position, locals and its effects
    clicks,        \* number of handler invocations started so far
    lastRequest,   \* the URL handed to fetch() most recently (NoUrl: none yet)
    requests,      \* number of fetch() calls made so far
    alerts,        \* number of alert() dialogs raised so far
    lastDone       \* the invocation that finished most recently (0: none yet)

vars == <<config, server, initial, searchInput, gifContainer, inv, clicks,
          lastRequest, requests, alerts, lastDone>>

-----------------------------------------------------------------------------
(* Bounds of the model *)

\* handler invocations (clicks) in one run
MaxClicks == 2
\* longest `data` array the API answers with
MaxData == 2

Ids == 1..MaxClicks

-----------------------------------------------------------------------------
(* Sequences *)

RECURSIVE SeqsUpTo(_, _)
SeqsUpTo(S, n) ==
    IF n = 0 THEN {<<>>}
    ELSE LET shorter == SeqsUpTo(S, n - 1)
         IN  shorter \cup {Append(s, x) : s \in {t \in shorter : Len(t) = n - 1}, x \in S}

-----------------------------------------------------------------------------
(* Strings: a string the code looks into is the sequence of its pieces.    *)
(* Characters the code treats one by one (the search term) are pieces of   *)
(* one character; the literals of the URL template are whole pieces, with  *)
(* the separators "?", "&" and "=" always pieces of their own.             *)

\* characters String.prototype.trim removes
Whitespace == {" "}

\* characters encodeURIComponent leaves as they are (the ones the model types)
Unreserved == {"a", "b", "c", "s", "t"}

\* encodeURIComponent of one character: its UTF-8 bytes as %XX
PercentEncoded(ch) ==
    CASE ch = " " -> "%20"
      [] ch = "&" -> "%26"
      [] ch = "=" -> "%3D"
      [] OTHER    -> ch

\* what the user may have typed when the button is clicked
InputValues ==
    { <<>>,
      <<" ">>,
      <<"c", "a", "t", "s">>,
      <<" ", "a", "&", "b", "=", "c", " ">> }

RECURSIVE TrimStart(_)
TrimStart(s) ==
    IF s # <<>> /\ Head(s) \in Whitespace THEN TrimStart(Tail(s)) ELSE s

RECURSIVE TrimEnd(_)
TrimEnd(s) ==
    IF s # <<>> /\ s[Len(s)] \in Whitespace
    THEN TrimEnd(SubSeq(s, 1, Len(s) - 1))
    ELSE s

trim(s) == TrimEnd(TrimStart(s))

encodeURIComponent(s) ==
    [i \in 1..Len(s) |-> IF s[i] \in Unreserved THEN s[i] ELSE PercentEncoded(s[i])]

-----------------------------------------------------------------------------
(* Configuration constants and the URL template (Steps 4 and 5)            *)

API_KEY == "kRB3yQVxhHG7HfBAwbWk1eFfBTpMHdP3"
LIMIT == 25
RATING == "g"
LANG == "en"
DEFAULT_QUERY == <<"c", "a", "t", "s">>

\* `${LIMIT}`: the decimal digits of the number
LimitText == ToString(LIMIT)

\* the template literal shared by `endpoint` and the click handler, with the
\* already-encoded query q
SearchUrl(q) ==
    <<"https://api.giphy.com/v1/gifs/search", "?", "api_key", "=", API_KEY,
      "&", "q", "=">> \o q \o
    <<"&", "limit", "=", LimitText, "&", "offset", "=", "0",
      "&", "rating", "=", RATING, "&", "lang", "=", LANG,
      "&", "bundle", "=", "messaging_non_clips">>

\* as endpoint, built from the (empty) search term instead of DEFAULT_QUERY
endpointOfEmptyTerm == SearchUrl(encodeURIComponent(<<>>))

endpoint == SearchUrl(encodeURIComponent(DEFAULT_QUERY))

\* the handler of script.js: const url = term ? `...` : endpoint
BuildUrl(term) ==
    IF term # <<>> THEN SearchUrl(encodeURIComponent(term)) ELSE endpoint

\* the handler of part_001: the raw term is pasted into the tags URL
TagsUrl(searchTerm) ==
    <<"https://api.giphy.com/v1/gifs/search/tags", "?", "api_key", "=",
      "kRB3yQVxhHG7HfBAwbWk1eFfBTpMHdP3", "&", "q", "=">> \o searchTerm \o
    <<"&", "limit", "=", "25", "&", "offset", "=", "0">>

\* no fetch() has been called yet
NoUrl == <<>>

-----------------------------------------------------------------------------
(* JSON values, as JavaScript sees them after res.json()                   *)

Undefined == [type |-> "undefined"]
Null == [type |-> "null"]
Str(s) == [type |-> "string", val |-> s]
Obj(f) == [type |-> "object", fields |-> f]
Arr(e) == [type |-> "array", elems |-> e]
NoFields == [n \in {} |-> Null]
\* the value of an expression that threw a TypeError
TypeError == [type |-> "TypeError"]

IsNullish(v) == v.type \in {"undefined", "null"}

\* v.name
Prop(v, name) ==
    IF v.type = "TypeError" \/ IsNullish(v) THEN TypeError
    ELSE IF v.type = "object" /\ name \in DOMAIN v.fields THEN v.fields[name]
    ELSE Undefined

\* v?.name
OptProp(v, name) ==
    IF v.type # "TypeError" /\ IsNullish(v) THEN Undefined ELSE Prop(v, name)

\* ToBoolean
Truthy(v) ==
    /\ ~IsNullish(v)
    /\ v.type # "TypeError"
    /\ ~(v.type = "string" /\ v.val = "")

\* `${v}` inside a template literal
TemplateText(v) ==
    CASE v.type = "string"    -> v.val
      [] v.type = "undefined" -> "undefined"
      [] v.type = "null"      -> "null"
      [] OTHER                -> "[object Object]"

-----------------------------------------------------------------------------
(* What the API may answer                                                 *)

GifUrls == {"https://x/1.gif", "https://x/2.gif"}

\* a GIF object carrying images.original.url = u
Gif(u) == Obj([images |-> Obj([original |-> Obj([url |-> Str(u)])])])

\* elements of `data`: well-formed GIF objects and every way of being malformed
Items ==
    {Gif(u) : u \in GifUrls} \cup
    { Null,
      Obj(NoFields),
      Obj([images |-> Obj(NoFields)]),
      Obj([images |-> Obj([original |-> Obj(NoFields)])]),
      Gif("") }

\* a body that JSON.parse rejects
InvalidJson == [type |-> "invalid"]

\* response bodies: not JSON, JSON without `data`, JSON null, and a `data` array
Bodies ==
    {InvalidJson, Null, Obj([meta |-> Obj(NoFields)])} \cup
    {Obj([data |-> Arr(d)]) : d \in SeqsUpTo(Items, MaxData)}

\* bodies sent along with an error status
ErrorBodies ==
    {InvalidJson, Obj([meta |-> Obj(NoFields)]), Obj([data |-> Arr(<<Gif("https://x/1.gif")>>)])}

Statuses == {200, 404, 500}

\* Response.ok
Ok(status) == status >= 200 /\ status <= 299

Responses ==
    {[status |-> st, body |-> b] : st \in {x \in Statuses : Ok(x)}, b \in Bodies} \cup
    {[status |-> st, body |-> b] : st \in {x \in Statuses : ~Ok(x)}, b \in ErrorBodies}

-----------------------------------------------------------------------------
(* Step 7: fetchGifs after the body is parsed, and the extraction of        *)
(* part_001                                                                *)

\* as HasUrl, testing item?.images?.original only
HasOriginal(item) ==
    Truthy(OptProp(OptProp(item, "images"), "original"))

\* the callback of .filter: item?.images?.original?.url
HasUrl(item) ==
    Truthy(OptProp(OptProp(OptProp(item, "images"), "original"), "url"))

\* the callback of both .map calls: item.images.original.url
OriginalUrl(item) == Prop(Prop(Prop(item, "images"), "original"), "url")

\* arr.filter(item => item?.images?.original?.url)
FilterHasUrl(arr) ==
    LET F[i \in 0..Len(arr)] ==
            IF i = 0 THEN <<>>
            ELSE IF HasUrl(arr[i]) THEN Append(F[i - 1], arr[i]) ELSE F[i - 1]
    IN  F[Len(arr)]

\* arr.map(item => item.images.original.url)
MapOriginalUrl(arr) == [i \in 1..Len(arr) |-> OriginalUrl(arr[i])]

\* data.data.filter(...).map(...) of script.js: the array of URLs, or TypeError
\* when data.data cannot be filtered
ExtractImages(data) ==
    LET arr == Prop(data, "data")
    IN  IF arr.type # "array" THEN TypeError
        ELSE Arr(MapOriginalUrl(FilterHasUrl(arr.elems)))

\* data.data.map(gif => gif.images.original.url) of part_001: the array of
\* mapped values, or TypeError when the callback throws on some element
ExtractImagesUnfiltered(data) ==
    LET arr == Prop(data, "data")
    IN  IF arr.type # "array" THEN TypeError
        ELSE LET mapped == MapOriginalUrl(arr.elems)
             IN  IF \E i \in 1..Len(mapped) : mapped[i].type = "TypeError"
                 THEN TypeError
                 ELSE Arr(mapped)

-----------------------------------------------------------------------------
(* The display region                                                      *)

\* <div class="col-6 col-md-3"><img src="${src}" class="img-fluid" alt="GIF"></div>
GridImage(src) ==
    [kind |-> "img", src |-> TemplateText(src), class |-> "col-6 col-md-3 > img-fluid"]

\* <img src="${url}" class="col-3 mb-3 img-fluid" alt="GIF">
PlainImage(url) ==
    [kind |-> "img", src |-> TemplateText(url), class |-> "col-3 mb-3 img-fluid"]

\* <div class="col-12"><div class="alert alert-danger" role="alert">...
ErrorNotice ==
    [kind |-> "error", text |-> "Failed to fetch GIFs. Check the console for details."]

\* a child the page's own markup may put into the region
StaticChild == [kind |-> "static"]

\* as RenderImages, without the clear: the loop appends to what is there
RenderImagesAppending(images) ==
    LET R[i \in 0..Len(images)] ==
            IF i = 0 THEN gifContainer ELSE Append(R[i - 1], GridImage(images[i]))
    IN  R[Len(images)]

\* gifContainer.innerHTML = ""; for (const src of images) gifContainer.innerHTML += ...
RenderImages(images) ==
    LET R[i \in 0..Len(images)] ==
            IF i = 0 THEN <<>> ELSE Append(R[i - 1], GridImage(images[i]))
    IN  R[Len(images)]

\* the same loop in part_001
RenderPlainImages(images) ==
    LET R[i \in 0..Len(images)] ==
            IF i = 0 THEN <<>> ELSE Append(R[i - 1], PlainImage(images[i]))
    IN  R[Len(images)]

\* gifContainer.innerHTML = `<div class="col-12">...` in the catch block
RenderError == <<ErrorNotice>>

-----------------------------------------------------------------------------
(* The click handler. Each invocation is an async function: it runs until   *)
(* its next await, and resumes when the awaited promise settles. The       *)
(* continuation of `await fetchGifs(url)` runs in the same microtask        *)
(* checkpoint as the end of fetchGifs, so no other handler runs in between. *)

(* Fields of an invocation: pc is where it stands ("idle", "awaitFetch",   *)
(* "awaitJson", "done", or "returned" after the early return of part_001); *)
(* logged is what it passed to console.error ("none": nothing); the rest   *)
(* records what it did: the invocations in flight when it was clicked, its *)
(* calls of json(), its clears of the region, the image elements and error *)
(* notices it inserted, and the content it left in the region.             *)

\* an invocation that has not started
Idle ==
    [pc |-> "idle", overlap |-> {}, logged |-> "none", jsonCalls |-> 0,
     clears |-> 0, images |-> 0, notices |-> 0, rendered |-> <<>>]

\* the rejection of fetch() when no response arrives
TransportError == "TypeError: Failed to fetch"

\* new Error(`HTTP ${res.status}`)
HttpError(status) == "HTTP " \o ToString(status)

\* the invocation started by the next click
NextId == clicks + 1

\* the invocations suspended at an await
InFlight == {i \in Ids : inv[i].pc \in {"awaitFetch", "awaitJson"}}

\* as Rendered, with a generation check: only the latest click may render
RenderedIfLatest(i, images) ==
    /\ gifContainer' = IF i = clicks THEN RenderImages(images) ELSE gifContainer
    /\ inv' = [inv EXCEPT ![i].pc = "done", ![i].clears = @ + 1,
                          ![i].images = @ + Len(images),
                          ![i].rendered = RenderImages(images)]
    /\ lastDone' = i

\* try-block of script.js after fetchGifs returned `images`
Rendered(i, images) ==
    /\ gifContainer' = RenderImages(images)
    /\ inv' = [inv EXCEPT ![i].pc = "done", ![i].clears = @ + 1,
                          ![i].images = @ + Len(images),
                          ![i].rendered = RenderImages(images)]
    /\ lastDone' = i

\* as Failed, with the notice appended (innerHTML +=) instead of assigned
FailedAppending(i, err) ==
    /\ gifContainer' = Append(gifContainer, ErrorNotice)
    /\ inv' = [inv EXCEPT ![i].pc = "done", ![i].logged = err,
                          ![i].clears = @ + 1, ![i].notices = @ + 1,
                          ![i].rendered = RenderError]
    /\ lastDone' = i

\* catch-block of script.js: console.error(err), then the notice
Failed(i, err) ==
    /\ gifContainer' = RenderError
    /\ inv' = [inv EXCEPT ![i].pc = "done", ![i].logged = err,
                          ![i].clears = @ + 1, ![i].notices = @ + 1,
                          ![i].rendered = RenderError]
    /\ lastDone' = i

\* as Click, with the clear of the region moved before the request
ClickClearing(value) ==
    /\ config = "default"
    /\ clicks < MaxClicks
    /\ LET term == trim(value)
           url  == BuildUrl(term)
       IN  /\ searchInput' = value
           /\ lastRequest' = url
           /\ requests' = requests + 1
           /\ inv' = [inv EXCEPT ![NextId] =
                        [Idle EXCEPT !.pc = "awaitFetch", !.overlap = InFlight]]
    /\ clicks' = NextId
    /\ gifContainer' = <<>>
    /\ UNCHANGED <<config, server, initial, alerts, lastDone>>

\* script.js 151-173 and fetchGifs up to `await fetch(url)`
Click(value) ==
    /\ config = "default"
    /\ clicks < MaxClicks
    /\ LET term == trim(value)
           url  == BuildUrl(term)
       IN  /\ searchInput' = value
           /\ lastRequest' = url
           /\ requests' = requests + 1
           /\ inv' = [inv EXCEPT ![NextId] =
                        [Idle EXCEPT !.pc = "awaitFetch", !.overlap = InFlight]]
    /\ clicks' = NextId
    /\ UNCHANGED <<config, server, initial, gifContainer, alerts, lastDone>>

\* as FetchResolve, with res.json() called before res.ok is looked at
FetchResolveJsonFirst(i) ==
    /\ config = "default"
    /\ inv[i].pc = "awaitFetch"
    /\ inv' = [inv EXCEPT ![i].pc = "awaitJson", ![i].jsonCalls = @ + 1]
    /\ UNCHANGED <<config, server, initial, searchInput, gifContainer, clicks,
                   lastRequest, requests, alerts, lastDone>>

\* fetch(url) resolves with the server's response: script.js 103-111
FetchResolve(i) ==
    /\ config = "default"
    /\ inv[i].pc = "awaitFetch"
    /\ IF ~Ok(server.status)
       THEN Failed(i, HttpError(server.status))
       ELSE /\ inv' = [inv EXCEPT ![i].pc = "awaitJson", ![i].jsonCalls = @ + 1]
            /\ UNCHANGED <<gifContainer, lastDone>>
    /\ UNCHANGED <<config, server, initial, searchInput, clicks, lastRequest,
                   requests, alerts>>

\* fetch(url) rejects (no connection, DNS, CORS): script.js 103, 186-197
FetchReject(i) ==
    /\ config = "default"
    /\ inv[i].pc = "awaitFetch"
    /\ Failed(i, TransportError)
    /\ UNCHANGED <<config, server, initial, searchInput, clicks, lastRequest,
                   requests, alerts>>

\* res.json() settles: script.js 111-123, then 173-197
JsonSettle(i) ==
    /\ config = "default"
    /\ inv[i].pc = "awaitJson"
    /\ IF server.body = InvalidJson
       THEN Failed(i, "SyntaxError")
       ELSE LET images == ExtractImages(server.body)
            IN  IF images.type = "TypeError"
                THEN Failed(i, "TypeError")
                ELSE Rendered(i, images.elems)
    /\ UNCHANGED <<config, server, initial, searchInput, clicks, lastRequest,
                   requests, alerts>>

-----------------------------------------------------------------------------
(* The click handler of part_001                                           *)

\* try-block of part_001 after `images` was computed
RenderedPlain(i, images) ==
    /\ gifContainer' = RenderPlainImages(images)
    /\ inv' = [inv EXCEPT ![i].pc = "done", ![i].clears = @ + 1,
                          ![i].images = @ + Len(images),
                          ![i].rendered = RenderPlainImages(images)]
    /\ lastDone' = i

\* as LoggedOnly, with the error notice of script.js displayed
LoggedAndNotified(i, err) ==
    /\ inv' = [inv EXCEPT ![i].pc = "done", ![i].logged = err]
    /\ lastDone' = i
    /\ gifContainer' = RenderError

\* catch-block of part_001: console.error only
LoggedOnly(i, err) ==
    /\ inv' = [inv EXCEPT ![i].pc = "done", ![i].logged = err]
    /\ lastDone' = i
    /\ UNCHANGED gifContainer

\* as ClickAlert, without the `return` after the alert
ClickAlertNoReturn(value) ==
    /\ config = "alert"
    /\ clicks < MaxClicks
    /\ LET searchTerm == trim(value)
       IN  /\ searchInput' = value
           /\ alerts' = IF searchTerm = <<>> THEN alerts + 1 ELSE alerts
           /\ lastRequest' = TagsUrl(searchTerm)
           /\ requests' = requests + 1
           /\ inv' = [inv EXCEPT ![NextId] =
                        [Idle EXCEPT !.pc = "awaitFetch", !.overlap = InFlight]]
    /\ clicks' = NextId
    /\ UNCHANGED <<config, server, initial, gifContainer, lastDone>>

\* part_001 10-25
ClickAlert(value) ==
    /\ config = "alert"
    /\ clicks < MaxClicks
    /\ LET searchTerm == trim(value)
       IN  /\ searchInput' = value
           /\ IF searchTerm = <<>>
              THEN /\ alerts' = alerts + 1
                   /\ inv' = [inv EXCEPT ![NextId] = [Idle EXCEPT !.pc = "returned"]]
                   /\ UNCHANGED <<lastRequest, requests>>
              ELSE /\ lastRequest' = TagsUrl(searchTerm)
                   /\ requests' = requests + 1
                   /\ inv' = [inv EXCEPT ![NextId] =
                                [Idle EXCEPT !.pc = "awaitFetch", !.overlap = InFlight]]
                   /\ UNCHANGED alerts
    /\ clicks' = NextId
    /\ UNCHANGED <<config, server, initial, gifContainer, lastDone>>

\* fetch(endpoint) resolves; response.json() is called whatever the status: 25-26
FetchResolveAlert(i) ==
    /\ config = "alert"
    /\ inv[i].pc = "awaitFetch"
    /\ inv' = [inv EXCEPT ![i].pc = "awaitJson", ![i].jsonCalls = @ + 1]
    /\ UNCHANGED <<config, server, initial, searchInput, gifContainer, clicks,
                   lastRequest, requests, alerts, lastDone>>

\* fetch(endpoint) rejects: 25, 42-44
FetchRejectAlert(i) ==
    /\ config = "alert"
    /\ inv[i].pc = "awaitFetch"
    /\ LoggedOnly(i, TransportError)
    /\ UNCHANGED <<config, server, initial, searchInput, clicks, lastRequest,
                   requests, alerts>>

\* response.json() settles: 26-44
JsonSettleAlert(i) ==
    /\ config = "alert"
    /\ inv[i].pc = "awaitJson"
    /\ IF server.body = InvalidJson
       THEN LoggedOnly(i, "SyntaxError")
       ELSE LET images == ExtractImagesUnfiltered(server.body)
            IN  IF images.type = "TypeError"
                THEN LoggedOnly(i, "TypeError")
                ELSE RenderedPlain(i, images.elems)
    /\ UNCHANGED <<config, server, initial, searchInput, clicks, lastRequest,
                   requests, alerts>>

-----------------------------------------------------------------------------

Init ==
    /\ config \in {"default", "alert"}
    /\ server \in Responses
    /\ initial \in {<<>>, <<StaticChild>>}
    /\ searchInput = <<>>
    /\ gifContainer = initial
    /\ inv = [i \in Ids |-> Idle]
    /\ clicks = 0
    /\ lastRequest = NoUrl
    /\ requests = 0
    /\ alerts = 0
    /\ lastDone = 0

Next ==
    \/ \E value \in InputValues : Click(value)
    \/ \E i \in Ids : FetchResolve(i)
    \/ \E i \in Ids : FetchReject(i)
    \/ \E i \in Ids : JsonSettle(i)
    \/ \E value \in InputValues : ClickAlert(value)
    \/ \E i \in Ids : FetchResolveAlert(i)
    \/ \E i \in Ids : FetchRejectAlert(i)
    \/ \E i \in Ids : JsonSettleAlert(i)

Spec == Init /\ [][Next]_vars

-----------------------------------------------------------------------------
(* Vocabulary of the properties                                            *)

\* the request of invocation i settled: its handler ran to its end
Settled(i) == inv[i].pc = "done"

\* invocation i got a response from the server (its fetch did not reject)
Answered(i) == Settled(i) /\ inv[i].logged # TransportError

\* a `data` element with a non-empty images.original.url
WellFormed(item) ==
    /\ item.type = "object"
    /\ "images" \in DOMAIN item.fields
    /\ item.fields.images.type = "object"
    /\ "original" \in DOMAIN item.fields.images.fields
    /\ item.fields.images.fields.original.type = "object"
    /\ "url" \in DOMAIN item.fields.images.fields.original.fields
    /\ item.fields.images.fields.original.fields.url.type = "string"
    /\ item.fields.images.fields.original.fields.url.val # ""

\* the body is JSON with a top-level `data` array
HasData(body) ==
    /\ body.type = "object"
    /\ "data" \in DOMAIN body.fields
    /\ body.fields.data.type = "array"

\* the URLs of the well-formed elements of the body's `data`, in array order
WellFormedUrls(body) ==
    LET good == SelectSeq(body.fields.data.elems, WellFormed)
    IN  [k \in 1..Len(good) |-> good[k].fields.images.fields.original.fields.url.val]

\* the region holds image elements only
OnlyImages(region) == \A k \in 1..Len(region) : region[k].kind = "img"

\* the sources of the region's image elements, in order
Sources(region) == [k \in 1..Len(region) |-> region[k].src]

\* the number of image elements in the region
ImageCount(region) == Cardinality({k \in 1..Len(region) : region[k].kind = "img"})

\* the number of error notices in the region
NoticeCount(region) == Cardinality({k \in 1..Len(region) : region[k].kind = "error"})

\* what an invocation renders according to its outcome: its image list after
\* a success, the error notice after a failure
RenderResult(i) ==
    IF inv[i].logged = "none" THEN inv[i].rendered ELSE <<ErrorNotice>>

-----------------------------------------------------------------------------
(* C1: in every reachable state the display region holds the render result *)
(* (image list or error notice) of the invocation whose fetch settled most *)
(* recently, and the initial content before any fetch has settled.         *)
(* Violated by part_001, whose catch block only logs: after a failure the  *)
(* region still shows what an earlier invocation rendered.                 *)
C1_DisplayIsLastSettled ==
    gifContainer = IF lastDone = 0 THEN initial ELSE RenderResult(lastDone)

-----------------------------------------------------------------------------
(* C2: (script.js) when a click is issued while an earlier request is      *)
(* still in flight, both invocations run to the end, each with the outcome *)
(* its own response gives it, and once both have settled the region holds  *)
(* the content of the one that settled last, whichever was issued first.   *)

\* what invocation i renders when it runs alone, from what the network gave it
OutcomeAlone(i) ==
    IF /\ inv[i].logged # TransportError
       /\ Ok(server.status)
       /\ HasData(server.body)
    THEN [k \in 1..Len(WellFormedUrls(server.body)) |->
            GridImage(Str(WellFormedUrls(server.body)[k]))]
    ELSE <<ErrorNotice>>

\* j was clicked while i was in flight, and both have settled since
Raced(i, j) ==
    /\ i < j
    /\ i \in inv[j].overlap
    /\ Settled(i)
    /\ Settled(j)

C2_LastSettledWins ==
    config = "default" =>
        \A i, j \in Ids :
            Raced(i, j) /\ lastDone \in {i, j} =>
                /\ inv[i].rendered = OutcomeAlone(i)
                /\ inv[j].rendered = OutcomeAlone(j)
                /\ gifContainer = inv[lastDone].rendered

\* the earlier-issued request settled last and its result is on display,
\* though the later-issued request rendered something else
C2_EarlierIssuedWins ==
    /\ config = "default"
    /\ \E i, j \in Ids :
        /\ Raced(i, j)
        /\ lastDone = i
        /\ inv[i].rendered # inv[j].rendered
        /\ gifContainer = inv[i].rendered
        /\ InFlight = {}

-----------------------------------------------------------------------------
(* C3: for a response whose `data` has N elements of which M carry a       *)
(* non-empty images.original.url, the invocation renders exactly M image   *)
(* elements, their sources those M URLs in array order; the malformed      *)
(* elements are skipped and cause no failure.                              *)
(* Violated by part_001, which maps without filtering: a null element or   *)
(* one without images.original throws, one without url renders             *)
(* src="undefined".                                                        *)
C3_MalformedSkipped ==
    \A i \in Ids :
        /\ Answered(i)
        /\ lastDone = i
        /\ Ok(server.status)
        /\ HasData(server.body)
        => /\ inv[i].logged = "none"
           /\ OnlyImages(gifContainer)
           /\ Sources(gifContainer) = WellFormedUrls(server.body)

-----------------------------------------------------------------------------
(* C4: when the response has a non-success status (404, 500), the          *)
(* invocation ends with exactly one error notice and no image element in   *)
(* the region, whatever the body and whatever the region held before.      *)
(* Violated by part_001, which never looks at the status: it decodes the   *)
(* body and renders its images, or logs and leaves the region alone.       *)
C4_ErrorStatusShowsNotice ==
    \A i \in Ids :
        /\ Answered(i)
        /\ lastDone = i
        /\ ~Ok(server.status)
        => /\ NoticeCount(gifContainer) = 1
           /\ ImageCount(gifContainer) = 0
           /\ Len(gifContainer) = 1

-----------------------------------------------------------------------------
(* C5: when the response has a success status and its JSON body has no     *)
(* top-level `data`, the invocation ends with exactly one error notice and *)
(* no image element in the region.                                         *)
(* Violated by part_001: the TypeError is logged and nothing is rendered.  *)

\* the body parses as JSON and has no `data` field
LacksData(body) ==
    \/ body.type = "null"
    \/ body.type = "object" /\ "data" \notin DOMAIN body.fields

C5_MissingDataShowsNotice ==
    \A i \in Ids :
        /\ Answered(i)
        /\ lastDone = i
        /\ Ok(server.status)
        /\ LacksData(server.body)
        => /\ inv[i].logged # "none"
           /\ gifContainer = <<ErrorNotice>>

-----------------------------------------------------------------------------
(* C6: a transport rejection, a non-success status and a body that cannot  *)
(* be decoded are all caught in the handler, and each leaves the same      *)
(* single generic notice in the region: the content a failing invocation   *)
(* leaves does not depend on the kind of error.                            *)
(* Violated by part_001: its catch block leaves no notice at all.          *)
C6_AllFailuresSameNotice ==
    \A i \in Ids :
        Settled(i) /\ inv[i].logged # "none" =>
            /\ inv[i].rendered = <<ErrorNotice>>
            /\ lastDone = i => gifContainer = <<ErrorNotice>>

-----------------------------------------------------------------------------
(* C7: two invocations in sequence (the second click after the first has   *)
(* finished, nothing else in between) that get the same backing response   *)
(* leave the same content in the region: the second render replaces the    *)
(* first, image elements do not accumulate, also after an error notice.    *)
(* The server of the model answers every URL alike, so the property is     *)
(* checked for every pair of URLs, equal ones included.                    *)

\* j is in flight, was clicked with no request in flight, and i is the last
\* invocation that settled before it
InSequence(i, j) ==
    /\ i < j
    /\ j \in InFlight
    /\ inv[j].overlap = {}
    /\ lastDone = i

C7_SequentialIdempotent ==
    [][ \A i, j \in Ids :
            /\ InSequence(i, j)
            /\ inv'[j].pc = "done"
            /\ (inv[i].logged = TransportError) <=> (inv'[j].logged = TransportError)
            => /\ gifContainer' = gifContainer
               /\ ImageCount(gifContainer') = ImageCount(gifContainer)
      ]_vars

\* the second of two sequential invocations has rendered the same images again
C7_RenderedTwice ==
    \E i, j \in Ids :
        /\ i < j
        /\ Settled(i)
        /\ Settled(j)
        /\ inv[j].overlap = {}
        /\ lastDone = j
        /\ inv[i].logged = "none"
        /\ inv[j].logged = "none"
        /\ inv[i].rendered = gifContainer
        /\ inv[j].rendered = gifContainer
        /\ ImageCount(gifContainer) >= 2

-----------------------------------------------------------------------------
(* C8: each invocation that issues a request clears the region exactly     *)
(* once, and the clear is followed in the same invocation by the image     *)
(* insertions (success) or by one error notice (failure), never both and   *)
(* never neither.                                                          *)
(* Violated by part_001: a failing invocation neither clears nor inserts.  *)
C8_OneClearThenImagesOrNotice ==
    \A i \in Ids :
        Settled(i) =>
            /\ inv[i].clears = 1
            /\ \/ /\ inv[i].logged = "none"
                  /\ inv[i].notices = 0
                  /\ inv[i].images = Len(inv[i].rendered)
               \/ /\ inv[i].logged # "none"
                  /\ inv[i].notices = 1
                  /\ inv[i].images = 0

-----------------------------------------------------------------------------
(* C9: from its click until its fetch (and the decoding of the body) has   *)
(* resolved or rejected, an invocation leaves the region unchanged: the    *)
(* region changes only in a step in which some invocation settles.         *)
C9_InFlightLeavesRegion ==
    [][ /\ \A i \in Ids :
            inv'[i] # inv[i] /\ inv'[i].pc \in {"awaitFetch", "awaitJson"}
                => gifContainer' = gifContainer
        /\ gifContainer' # gifContainer
                => \E k \in Ids : ~Settled(k) /\ inv'[k].pc = "done"
      ]_vars

\* a request is being decoded while the region shows what another
\* invocation rendered
C9_PendingOverOldContent ==
    /\ config = "default"
    /\ \E i \in Ids :
        /\ inv[i].pc = "awaitJson"
        /\ lastDone # 0
        /\ gifContainer = inv[lastDone].rendered
        /\ gifContainer # initial

-----------------------------------------------------------------------------
(* C10: (script.js) a click with an empty or whitespace-only search term   *)
(* issues exactly one request, for the default-query URL: q is the         *)
(* hardcoded default term, all fixed parameters are attached, and the URL  *)
(* is the one built for the non-empty term "cats".                         *)

\* the default-query URL, written out
DefaultQueryUrl ==
    <<"https://api.giphy.com/v1/gifs/search", "?",
      "api_key", "=", "kRB3yQVxhHG7HfBAwbWk1eFfBTpMHdP3", "&",
      "q", "=", "c", "a", "t", "s", "&",
      "limit", "=", "25", "&",
      "offset", "=", "0", "&",
      "rating", "=", "g", "&",
      "lang", "=", "en", "&",
      "bundle", "=", "messaging_non_clips">>

C10_EmptyTermUsesDefaultQuery ==
    [][ /\ config = "default"
        /\ clicks' = clicks + 1
        /\ trim(searchInput') = <<>>
        => /\ requests' = requests + 1
           /\ lastRequest' = DefaultQueryUrl
           /\ lastRequest' = BuildUrl(<<"c", "a", "t", "s">>)
      ]_vars

\* a whitespace-only term was clicked and the default-query URL requested
C10_WhitespaceClicked ==
    /\ config = "default"
    /\ clicks > 0
    /\ requests = clicks
    /\ searchInput = <<" ">>
    /\ lastRequest = DefaultQueryUrl

-----------------------------------------------------------------------------
(* The query string of a URL, as the server reads it                       *)

\* the position of the first piece equal to sep, 0 when there is none
IndexOf(s, sep) ==
    IF \E k \in 1..Len(s) : s[k] = sep
    THEN CHOOSE k \in 1..Len(s) : s[k] = sep /\ \A m \in 1..(k - 1) : s[m] # sep
    ELSE 0

\* the segments of s between the pieces equal to sep
RECURSIVE Split(_, _)
Split(s, sep) ==
    IF IndexOf(s, sep) = 0 THEN <<s>>
    ELSE <<SubSeq(s, 1, IndexOf(s, sep) - 1)>> \o
         Split(SubSeq(s, IndexOf(s, sep) + 1, Len(s)), sep)

\* name=value: the name up to the first "=", the value after it
Param(segment) ==
    IF IndexOf(segment, "=") = 0 THEN [name |-> segment, value |-> <<>>]
    ELSE [name  |-> SubSeq(segment, 1, IndexOf(segment, "=") - 1),
          value |-> SubSeq(segment, IndexOf(segment, "=") + 1, Len(segment))]

\* the parameters of the URL, in order
Params(url) ==
    LET segments == Split(SubSeq(url, IndexOf(url, "?") + 1, Len(url)), "&")
    IN  [k \in 1..Len(segments) |-> Param(segments[k])]

\* the URL has exactly one parameter of that name, with that value
HasParam(url, name, value) ==
    /\ Cardinality({k \in 1..Len(Params(url)) : Params(url)[k].name = <<name>>}) = 1
    /\ \A k \in 1..Len(Params(url)) :
        Params(url)[k].name = <<name>> => Params(url)[k].value = value

\* how often sub occurs in s
Occurrences(sub, s) ==
    Cardinality({k \in 1..(Len(s) - Len(sub) + 1) : SubSeq(s, k, k + Len(sub) - 1) = sub})

\* the most recent click read a non-empty term, so lastRequest is its request
TermRequested == clicks > 0 /\ trim(searchInput) # <<>>

-----------------------------------------------------------------------------
(* C11: (part_001) a click with an empty or whitespace-only term raises    *)
(* the alert, issues no request and leaves the region unchanged; the       *)
(* invocation returns at once and never enters the fetch-and-render steps. *)
C11_EmptyTermAlertsOnly ==
    [][ /\ config = "alert"
        /\ clicks' = clicks + 1
        /\ trim(searchInput') = <<>>
        => /\ alerts' = alerts + 1
           /\ requests' = requests
           /\ lastRequest' = lastRequest
           /\ gifContainer' = gifContainer
           /\ inv'[clicks'] = [Idle EXCEPT !.pc = "returned"]
           /\ clicks' \notin {i \in Ids : inv'[i].pc \in {"awaitFetch", "awaitJson"}}
      ]_vars

\* a whitespace-only term was clicked over rendered images: the alert was
\* raised, the images are still there
C11_AlertOverImages ==
    /\ config = "alert"
    /\ clicks > 0
    /\ searchInput = <<" ">>
    /\ inv[clicks].pc = "returned"
    /\ alerts = 1
    /\ requests = clicks - 1
    /\ ImageCount(gifContainer) > 0

-----------------------------------------------------------------------------
(* C12: for every non-empty trimmed term the requested URL contains the    *)
(* URL-encoded term exactly once, as the value of its one q parameter, so  *)
(* that "&" or "=" in the term adds or changes no other parameter: the     *)
(* names and the other values are those of the request for a plain term.   *)
(* Violated by part_001 line 21, which pastes the raw term into the URL.   *)

\* what the installed handler requests for the plain term "cats"
PlainTermUrl ==
    IF config = "default"
    THEN BuildUrl(<<"c", "a", "t", "s">>)
    ELSE TagsUrl(<<"c", "a", "t", "s">>)

C12_TermEncodedOnceAsQ ==
    TermRequested =>
        LET encoded == encodeURIComponent(trim(searchInput))
            got     == Params(lastRequest)
            plain   == Params(PlainTermUrl)
        IN  /\ Occurrences(encoded, lastRequest) = 1
            /\ HasParam(lastRequest, "q", encoded)
            /\ Len(got) = Len(plain)
            /\ \A k \in 1..Len(got) :
                /\ got[k].name = plain[k].name
                /\ got[k].name # <<"q">> => got[k].value = plain[k].value

-----------------------------------------------------------------------------
(* C13: (script.js) a successful response whose `data` is empty, or whose  *)
(* elements are all malformed, ends rendered with an empty region: no      *)
(* image, no error notice, whatever was shown before.                      *)
C13_NoResultsEmptyRegion ==
    config = "default" =>
        \A i \in Ids :
            /\ Answered(i)
            /\ lastDone = i
            /\ Ok(server.status)
            /\ HasData(server.body)
            /\ WellFormedUrls(server.body) = <<>>
            => /\ inv[i].logged = "none"
               /\ inv[i].clears = 1
               /\ inv[i].notices = 0
               /\ gifContainer = <<>>

\* a response with malformed elements only has emptied a region that held
\* the page's own content
C13_MalformedOnlyEmptied ==
    /\ config = "default"
    /\ initial # <<>>
    /\ Ok(server.status)
    /\ HasData(server.body)
    /\ Len(server.body.fields.data.elems) = 2
    /\ WellFormedUrls(server.body) = <<>>
    /\ lastDone # 0
    /\ inv[lastDone].logged = "none"
    /\ gifContainer = <<>>

-----------------------------------------------------------------------------
(* C14: an invocation never goes back to an earlier step, and the step in  *)
(* which its network call settles takes it to exactly one terminal state:  *)
(* Rendered (its images are the region) or Failed-Displayed (the notice is *)
(* the region); once there it stays as it is. A click starts its attempt   *)
(* from scratch, and what the attempt ends with is what any other attempt  *)
(* with the same network outcome ended with, failed attempts before it or  *)
(* not.                                                                    *)
(* Violated by part_001, for the reason of C6: its failing invocation ends *)
(* in neither terminal state, the failure is logged and not displayed.     *)

\* how far the handler has run
StepRank(pc) ==
    CASE pc = "idle"       -> 0
      [] pc = "awaitFetch" -> 1
      [] pc = "awaitJson"  -> 2
      [] OTHER             -> 3

\* the invocation with record rec ended by rendering its images into region
TerminalRendered(rec, region) ==
    /\ rec.logged = "none"
    /\ OnlyImages(region)
    /\ region = rec.rendered

\* the invocation with record rec ended by displaying the notice in region
TerminalFailedDisplayed(rec, region) ==
    /\ rec.logged # "none"
    /\ region = <<ErrorNotice>>

\* what one step may do to the invocations
TerminalStep ==
    \A i \in Ids :
        /\ StepRank(inv'[i].pc) >= StepRank(inv[i].pc)
        /\ Settled(i) => inv'[i] = inv[i]
        /\ inv[i].pc = "idle" /\ inv'[i].pc # "idle" =>
              /\ i = clicks'
              /\ inv'[i] = [Idle EXCEPT !.pc = inv'[i].pc, !.overlap = InFlight \cap inv'[i].overlap]
        /\ ~Settled(i) /\ inv'[i].pc = "done" =>
              /\ TerminalRendered(inv'[i], gifContainer')
                    # TerminalFailedDisplayed(inv'[i], gifContainer')
              /\ \A j \in Ids :
                    /\ Settled(j)
                    /\ (inv[j].logged = TransportError) <=> (inv'[i].logged = TransportError)
                    => /\ inv'[i].rendered = inv[j].rendered
                       /\ inv'[i].logged = inv[j].logged

C14_OneTerminalNoReturn == [][TerminalStep]_vars

-----------------------------------------------------------------------------
(* C15: (script.js) an invocation is suspended only at `await fetch` and   *)
(* `await res.json()`, so its clear and its insertions happen in one step. *)
(* In every state, that is wherever another handler can run, the region    *)
(* holds the initial content, or exactly one error notice, or the complete *)
(* image list of one response: never images of two renders, never images   *)
(* together with a notice.                                                 *)

\* the region is the whole image list some invocation rendered from its response
OneResponseImages(region) ==
    \E i \in Ids :
        /\ Settled(i)
        /\ inv[i].logged = "none"
        /\ region = inv[i].rendered
        /\ OnlyImages(region)
        /\ Sources(region) = WellFormedUrls(server.body)

C15_RegionNeverMixed ==
    config = "default" =>
        \/ gifContainer = initial
        \/ gifContainer = <<ErrorNotice>>
        \/ OneResponseImages(gifContainer)

\* of two racing invocations the later-issued one displayed the notice, then
\* the earlier-issued one rendered its two images: the region holds just those
C15_ImagesAfterRacingNotice ==
    /\ config = "default"
    /\ \E i, j \in Ids :
        /\ Raced(i, j)
        /\ inv[j].logged = TransportError
        /\ inv[i].logged = "none"
        /\ lastDone = i
    /\ ImageCount(gifContainer) = 2
    /\ NoticeCount(gifContainer) = 0
    /\ Sources(gifContainer) = WellFormedUrls(server.body)

-----------------------------------------------------------------------------
(* C16: every URL the click handler requests, whatever the term, carries   *)
(* each of the six fixed parameters once: the API key, limit=25, offset=0, *)
(* the rating filter, the language filter and the bundle selector.         *)
(* Violated by part_001 line 21, whose URL has no rating, lang or bundle.  *)
C16_SixFixedParams ==
    lastRequest # NoUrl =>
        /\ HasParam(lastRequest, "api_key", <<"kRB3yQVxhHG7HfBAwbWk1eFfBTpMHdP3">>)
        /\ HasParam(lastRequest, "limit", <<"25">>)
        /\ HasParam(lastRequest, "offset", <<"0">>)
        /\ HasParam(lastRequest, "rating", <<"g">>)
        /\ HasParam(lastRequest, "lang", <<"en">>)
        /\ HasParam(lastRequest, "bundle", <<"messaging_non_clips">>)

-----------------------------------------------------------------------------
(* C17: (script.js, part_000) fetchGifs looks at the status before it      *)
(* parses: an invocation is decoding a body only when the status is a      *)
(* success; one answered with a non-success status has failed with the     *)
(* error "HTTP <status>" and never called json(); one whose fetch rejected *)
(* has failed with the transport error and never called json() either.     *)
C17_StatusBeforeParsing ==
    config = "default" =>
        \A i \in Ids :
            /\ inv[i].pc = "awaitJson" => Ok(server.status)
            /\ inv[i].jsonCalls > 0 => Ok(server.status) /\ inv[i].logged # TransportError
            /\ Answered(i) /\ ~Ok(server.status) =>
                  /\ inv[i].logged = "HTTP " \o ToString(server.status)
                  /\ inv[i].jsonCalls = 0
                  /\ inv[i].rendered = <<ErrorNotice>>
            /\ Settled(i) /\ ~Answered(i) =>
                  /\ inv[i].jsonCalls = 0
                  /\ inv[i].rendered = <<ErrorNotice>>

\* a 404 whose body carries a well-formed GIF has failed as "HTTP 404",
\* its body never decoded, and the notice is displayed
C17_NotFoundUndecoded ==
    /\ config = "default"
    /\ server.status = 404
    /\ HasData(server.body)
    /\ WellFormedUrls(server.body) # <<>>
    /\ lastDone # 0
    /\ inv[lastDone].logged = "HTTP 404"
    /\ inv[lastDone].jsonCalls = 0
    /\ gifContainer = <<ErrorNotice>>

-----------------------------------------------------------------------------
(* C18: (part_001) when the fetch rejects, the body is not valid JSON,     *)
(* `data` is missing, or an element of `data` lacks images.original, the   *)
(* step in which the invocation ends logs the error and leaves the region  *)
(* as it is: it neither clears nor inserts, images rendered earlier stay,  *)
(* and no step ever puts an error notice into the region.                  *)

\* gif.images.original.url throws on this element
LacksOriginal(item) ==
    \/ item.type # "object"
    \/ "images" \notin DOMAIN item.fields
    \/ "original" \notin DOMAIN item.fields.images.fields

\* the body makes the try-block of part_001 throw
ThrowsInAlert(body) ==
    \/ body = InvalidJson
    \/ ~HasData(body)
    \/ \E k \in 1..Len(body.fields.data.elems) : LacksOriginal(body.fields.data.elems[k])

C18_FailureOnlyLogs ==
    [][ config = "alert" =>
            /\ NoticeCount(gifContainer') = 0
            /\ \A i \in Ids :
                /\ ~Settled(i)
                /\ inv'[i].pc = "done"
                /\ inv'[i].logged = TransportError \/ ThrowsInAlert(server.body)
                => /\ inv'[i].logged # "none"
                   /\ gifContainer' = gifContainer
                   /\ inv'[i].clears = 0
                   /\ inv'[i].images = 0
                   /\ inv'[i].notices = 0
      ]_vars

\* the images of an earlier invocation are still displayed after a later
\* invocation's fetch was rejected
C18_ImagesSurviveRejection ==
    /\ config = "alert"
    /\ \E i, j \in Ids :
        /\ i < j
        /\ Settled(i)
        /\ inv[i].logged = "none"
        /\ lastDone = j
        /\ inv[j].logged = TransportError
        /\ gifContainer = inv[i].rendered
    /\ ImageCount(gifContainer) > 0
    /\ NoticeCount(gifContainer) = 0

====
